---- MODULE Spec2Model ----
(***************************************************************************)
(* A model of nanobot.rs: the Select query description (src/src/sql.rs),   *)
(* its translators to SQL text and to URL text, the reshaping of records   *)
(* into a keyed map, and the Select built by the HTTP table handler        *)
(* (src/src/serve.rs).                                                     *)
(*                                                                         *)
(* A Rust String is a sequence of one-character strings, so that format!,  *)
(* join, split, replace and ends_with are computed character by character. *)
(***************************************************************************)
EXTENDS Integers, Sequences, FiniteSets, TLC

VARIABLES
    sel,      \* the Select under construction / handed to a translator
    hist,     \* history: what the calls made so far were asked to store
    op,       \* the operation that acted last
    format,   \* the response format chosen by the HTTP table handler
    out,      \* what the last translator call returned
    parsed,   \* the Query parsed back from the rendered URL
    rows,     \* rows_to_map: the record list
    column,   \* rows_to_map: the key column
    result    \* rows_to_map: what the call returned

vars == << sel, hist, op, format, out, parsed, rows, column, result >>

----------------------------------------------------------------------------
(* Bounds of the model *)

\* longest list a Select is built up to by the mutators
MaxBuild == 2
\* longest argument vector of one mutator call
MaxArg == 1
\* longest select / filter / order list of a Select handed to a translator
MaxList == 2
\* largest offset
MaxOffset == 2
\* most records in a record list
MaxRows == 2

(* Program constants *)
LIMIT_MAX == 100
LIMIT_DEFAULT == 10

----------------------------------------------------------------------------
(* Strings *)

RECURSIVE SeqsUpTo(_, _)
\* all sequences over S of length at most n
SeqsUpTo(S, n) ==
    IF n = 0 THEN { <<>> }
    ELSE LET shorter == SeqsUpTo(S, n - 1)
         IN  shorter \cup { Append(s, x) : s \in { t \in shorter : Len(t) = n - 1 }, x \in S }

DigitChars == <<"0", "1", "2", "3", "4", "5", "6", "7", "8", "9">>

RECURSIVE FormatUsize(_)
\* format!("{}", n) for an unsigned integer: its decimal digits
FormatUsize(n) ==
    IF n < 10 THEN << DigitChars[n + 1] >>
    ELSE Append(FormatUsize(n \div 10), DigitChars[(n % 10) + 1])

RECURSIVE Join(_, _)
\* parts.join(sep)
Join(parts, sep) ==
    IF Len(parts) = 0 THEN <<>>
    ELSE IF Len(parts) = 1 THEN parts[1]
    ELSE parts[1] \o sep \o Join(Tail(parts), sep)

\* s.starts_with(p)
StartsWith(s, p) == Len(s) >= Len(p) /\ SubSeq(s, 1, Len(p)) = p

\* s.ends_with(p)
EndsWith(s, p) == Len(s) >= Len(p) /\ SubSeq(s, Len(s) - Len(p) + 1, Len(s)) = p

RECURSIVE Replace(_, _)
\* s.replace(p, ""): every non-overlapping occurrence of p removed, left to right
Replace(s, p) ==
    IF Len(s) = 0 THEN <<>>
    ELSE IF StartsWith(s, p) THEN Replace(SubSeq(s, Len(p) + 1, Len(s)), p)
    ELSE << s[1] >> \o Replace(Tail(s), p)

UpperChars == <<"A", "B", "C", "D", "E", "F", "G", "H", "I", "J", "K", "L", "M",
                "N", "O", "P", "Q", "R", "S", "T", "U", "V", "W", "X", "Y", "Z">>
LowerChars == <<"a", "b", "c", "d", "e", "f", "g", "h", "i", "j", "k", "l", "m",
                "n", "o", "p", "q", "r", "s", "t", "u", "v", "w", "x", "y", "z">>

\* s.to_lowercase()
ToLowercase(s) ==
    [ i \in 1..Len(s) |->
        IF \E k \in 1..26 : UpperChars[k] = s[i]
        THEN LowerChars[CHOOSE k \in 1..26 : UpperChars[k] = s[i]]
        ELSE s[i] ]

\* the position of the first x in s, 0 when there is none
IndexOf(s, x) ==
    IF \E i \in 1..Len(s) : s[i] = x
    THEN CHOOSE i \in 1..Len(s) : s[i] = x /\ \A j \in 1..(i - 1) : s[j] # x
    ELSE 0

\* the position of the last x in s, 0 when there is none
LastIndexOf(s, x) ==
    IF \E i \in 1..Len(s) : s[i] = x
    THEN CHOOSE i \in 1..Len(s) : s[i] = x /\ \A j \in (i + 1)..Len(s) : s[j] # x
    ELSE 0

RECURSIVE Split(_, _)
\* s.split(x) for a one-character separator: the pieces between the separators
Split(s, x) ==
    LET i == IndexOf(s, x)
    IN  IF i = 0 THEN << s >>
        ELSE << SubSeq(s, 1, i - 1) >> \o Split(SubSeq(s, i + 1, Len(s)), x)

----------------------------------------------------------------------------
(* The query model: Operator, Direction, Value, Select *)

Operators == { "EQUALS" }
Directions == { "ASC", "DESC" }

\* serde_json::Value: a string, or a scalar that is not a string
StringValue(s) == [t |-> "String", s |-> s]
NumberValue(n) == [t |-> "Number", s |-> FormatUsize(n)]

\* Value::as_str(): Some(s) for a string, None for anything else
as_str(v) ==
    IF v.t = "String" THEN [some |-> TRUE, v |-> v.s] ELSE [some |-> FALSE, v |-> <<>>]

\* Select::new(): Default::default()
Select_new ==
    [table |-> <<>>, select |-> <<>>, filter |-> <<>>, order |-> <<>>,
     limit |-> 0, offset |-> 0]

\* Select::clone(select)
Select_clone(s) == s

\* Select::table(table)
Select_table(s, table) == [s EXCEPT !.table = table]

\* a mutator that forgets what the list held before the call
Select_select_replacing(s, select) == [s EXCEPT !.select = select]

\* Select::select(select): every element pushed at the end, in order
Select_select(s, select) == [s EXCEPT !.select = @ \o select]

\* Select::filter(filter)
Select_filter(s, filter) == [s EXCEPT !.filter = @ \o filter]

\* Select::order(order)
Select_order(s, order) == [s EXCEPT !.order = @ \o order]

\* Select::limit(limit)
Select_limit(s, limit) == [s EXCEPT !.limit = limit]

\* Select::offset(offset)
Select_offset(s, offset) == [s EXCEPT !.offset = offset]

----------------------------------------------------------------------------
(* The HTTP table handler of serve.rs *)

PRETTY_JSON_SUFFIX == <<".", "p", "r", "e", "t", "t", "y", ".", "j", "s", "o", "n">>
JSON_SUFFIX == <<".", "j", "s", "o", "n">>

\* Option<usize>
None == [some |-> FALSE, v |-> 0]
Some(n) == [some |-> TRUE, v |-> n]

\* Option::unwrap_or_default()
unwrap_or_default(o) == IF o.some THEN o.v ELSE 0

\* the table name the handler takes from the path
HandlerTable(path) ==
    IF EndsWith(path, PRETTY_JSON_SUFFIX) THEN Replace(path, PRETTY_JSON_SUFFIX)
    ELSE IF EndsWith(path, JSON_SUFFIX) THEN Replace(path, JSON_SUFFIX)
    ELSE path

\* the response format the handler takes from the path
HandlerFormat(path) ==
    IF EndsWith(path, PRETTY_JSON_SUFFIX) THEN "pretty.json"
    ELSE IF EndsWith(path, JSON_SUFFIX) THEN "json"
    ELSE "html"

\* the Select the handler builds: table, limit and offset from the request,
\* everything else Default::default()
HandlerSelect(path, params) ==
    [Select_new EXCEPT !.table = HandlerTable(path),
                       !.limit = unwrap_or_default(params.limit),
                       !.offset = unwrap_or_default(params.offset)]

----------------------------------------------------------------------------
(* Inputs of the builder and of the handler *)

ColA == <<"a">>
ColB == <<"b">>
Columns == { ColA, ColB }
TableT == <<"t">>
TableU == <<"u">>

BuildFilters == { <<ColA, "EQUALS", StringValue(<<"x">>)>>, <<ColB, "EQUALS", NumberValue(5)>> }
BuildOrders == { <<ColA, "ASC">>, <<ColB, "DESC">> }
BuildLimits == { 0, LIMIT_DEFAULT, LIMIT_MAX + 1 }
Offsets == 0..MaxOffset
Paths == { TableT, TableT \o JSON_SUFFIX, TableT \o PRETTY_JSON_SUFFIX,
           TableT \o JSON_SUFFIX \o JSON_SUFFIX }
Options(S) == { None } \cup { Some(n) : n \in S }
RequestParams == [limit : Options(BuildLimits), offset : Options(Offsets)]

NoOut == [fn |-> "none", tag |-> "None", text |-> <<>>]
NoParse == [tag |-> "None", q |-> Select_new]
NoResult == [tag |-> "None", map |-> <<>>]

----------------------------------------------------------------------------
(* Building a Select: Select::new() and the mutators, and the handler *)

\* the Select is still the caller's to change: the handler's is a local,
\* immutable binding
Mutable == op # "table_handler"

BuildRest == UNCHANGED << out, parsed, rows, column, result >>

CallNew ==
    /\ sel' = Select_new
    /\ hist' = Select_new
    /\ op' = "new"
    /\ format' = ""
    /\ BuildRest

CallClone ==
    /\ Mutable
    /\ sel' = Select_clone(sel)
    /\ op' = "clone"
    /\ UNCHANGED << hist, format >>
    /\ BuildRest

CallTable ==
    /\ Mutable
    /\ \E t \in { <<>>, TableT } :
        /\ sel' = Select_table(sel, t)
        /\ hist' = [hist EXCEPT !.table = t]
    /\ op' = "table"
    /\ UNCHANGED format
    /\ BuildRest

CallSelect ==
    /\ Mutable
    /\ \E v \in SeqsUpTo(Columns, MaxArg) :
        /\ Len(sel.select) + Len(v) <= MaxBuild
        /\ sel' = Select_select(sel, v)
        /\ hist' = [hist EXCEPT !.select = hist.select \o v]
    /\ op' = "select"
    /\ UNCHANGED format
    /\ BuildRest

CallFilter ==
    /\ Mutable
    /\ \E v \in SeqsUpTo(BuildFilters, MaxArg) :
        /\ Len(sel.filter) + Len(v) <= MaxBuild
        /\ sel' = Select_filter(sel, v)
        /\ hist' = [hist EXCEPT !.filter = hist.filter \o v]
    /\ op' = "filter"
    /\ UNCHANGED format
    /\ BuildRest

CallOrder ==
    /\ Mutable
    /\ \E v \in SeqsUpTo(BuildOrders, MaxArg) :
        /\ Len(sel.order) + Len(v) <= MaxBuild
        /\ sel' = Select_order(sel, v)
        /\ hist' = [hist EXCEPT !.order = hist.order \o v]
    /\ op' = "order"
    /\ UNCHANGED format
    /\ BuildRest

CallLimit ==
    /\ Mutable
    /\ \E n \in BuildLimits :
        /\ sel' = Select_limit(sel, n)
        /\ hist' = [hist EXCEPT !.limit = n]
    /\ op' = "limit"
    /\ UNCHANGED format
    /\ BuildRest

CallOffset ==
    /\ Mutable
    /\ \E n \in Offsets :
        /\ sel' = Select_offset(sel, n)
        /\ hist' = [hist EXCEPT !.offset = n]
    /\ op' = "offset"
    /\ UNCHANGED format
    /\ BuildRest

\* GET /:table, up to the call of get::get_rows.  A request builds its own
\* Select and reads nothing of the one a caller is building, so it is taken
\* between two constructions: the states reached are the same from anywhere.
TableHandler ==
    /\ op \in { "new", "table_handler" }
    /\ \E path \in Paths, params \in RequestParams :
        /\ sel' = HandlerSelect(path, params)
        /\ hist' = [Select_new EXCEPT !.table = HandlerTable(path)]
        /\ format' = HandlerFormat(path)
    /\ op' = "table_handler"
    /\ BuildRest

InitBuild ==
    /\ sel = Select_new
    /\ hist = Select_new
    /\ op = "new"
    /\ format = ""
    /\ out = NoOut
    /\ parsed = NoParse
    /\ rows = <<>>
    /\ column = <<>>
    /\ result = NoResult

NextBuild ==
    \/ CallNew
    \/ CallClone
    \/ CallTable
    \/ CallSelect
    \/ CallFilter
    \/ CallOrder
    \/ CallLimit
    \/ CallOffset
    \/ TableHandler

SpecBuild == InitBuild /\ [][NextBuild]_vars

----------------------------------------------------------------------------
(* The SQL compiler: select_to_sql and select_to_sql_count *)

NEWLINE == <<"\n">>
SELECT_JSON_OBJECT == <<"S", "E", "L", "E", "C", "T", " ", "j", "s", "o", "n", "_", "o", "b", "j", "e", "c", "t", "(">>
AS_JSON_RESULT == <<")", " ", "A", "S", " ", "j", "s", "o", "n", "_", "r", "e", "s", "u", "l", "t">>
SELECT_COUNT == <<"S", "E", "L", "E", "C", "T", " ", "C", "O", "U", "N", "T", "(", "*", ")", " ", "A", "S", " ", "c", "o", "u", "n", "t">>
FROM_KW == <<"F", "R", "O", "M", " ">>
WHERE_KW == <<"W", "H", "E", "R", "E", " ">>
AND_SEP == <<"\n", " ", " ", "A", "N", "D", " ">>
ORDER_BY_KW == <<"O", "R", "D", "E", "R", " ", "B", "Y", " ">>
LIMIT_KW == <<"L", "I", "M", "I", "T", " ">>
OFFSET_KW == <<"O", "F", "F", "S", "E", "T", " ">>

\* what a translator call ends with: the text it returns, or a panic
Ok(text) == [tag |-> "Ok", text |-> text]
Panic == [tag |-> "Panic", text |-> <<>>]

\* format!("{:?}", d) of a Direction
DebugDirection(d) == IF d = "ASC" THEN <<"A", "S", "C">> ELSE <<"D", "E", "S", "C">>

\* filter.2.as_str().unwrap() panics for some filter of the list
UnwrapPanics(filter) == \E i \in 1..Len(filter) : ~as_str(filter[i][3]).some

\* format!(r#"'{}', "{}""#, c, c) for every projected column
SqlParts(s) ==
    [ i \in 1..Len(s.select) |->
        <<"'">> \o s.select[i] \o <<"'", ",", " ", "\"">> \o s.select[i] \o <<"\"">> ]

\* format!(r#""{}" = '{}'"#, filter.0, filter.2.as_str().unwrap()) for every filter
SqlFilters(s) ==
    [ i \in 1..Len(s.filter) |->
        <<"\"">> \o s.filter[i][1] \o <<"\"", " ", "=", " ", "'">>
                 \o as_str(s.filter[i][3]).v \o <<"'">> ]

\* format!(r#""{}" {:?}"#, c, d) for every order pair
SqlOrder(s) ==
    [ i \in 1..Len(s.order) |->
        <<"\"">> \o s.order[i][1] \o <<"\"", " ">> \o DebugDirection(s.order[i][2]) ]

\* the FROM line and, when there are filters, the WHERE line
SqlFromWhere(s) ==
    << FROM_KW \o <<"\"">> \o s.table \o <<"\"">> >>
    \o (IF Len(s.filter) > 0
        THEN << WHERE_KW \o Join(SqlFilters(s), AND_SEP) >>
        ELSE <<>>)

\* the lines select_to_sql collects
SqlLines(s) ==
    << SELECT_JSON_OBJECT,
       <<" ", " ">> \o Join(SqlParts(s), <<",", "\n", " ", " ">>),
       AS_JSON_RESULT >>
    \o SqlFromWhere(s)
    \o (IF Len(s.order) > 0
        THEN << ORDER_BY_KW \o Join(SqlOrder(s), <<",", " ">>) >>
        ELSE <<>>)
    \o (IF s.limit > 0 THEN << LIMIT_KW \o FormatUsize(s.limit) >> ELSE <<>>)
    \o (IF s.offset > 0 THEN << OFFSET_KW \o FormatUsize(s.offset) >> ELSE <<>>)

\* select_to_sql(s)
select_to_sql(s) ==
    IF UnwrapPanics(s.filter) THEN Panic ELSE Ok(Join(SqlLines(s), NEWLINE))

\* a count statement that keeps the pagination of the row-fetch statement
select_to_sql_count_paginated(s) ==
    IF UnwrapPanics(s.filter) THEN Panic
    ELSE Ok(Join(<< SELECT_COUNT >> \o SqlFromWhere(s)
                 \o (IF s.limit > 0 THEN << LIMIT_KW \o FormatUsize(s.limit) >> ELSE <<>>),
                 NEWLINE))

\* select_to_sql_count(s)
select_to_sql_count(s) ==
    IF UnwrapPanics(s.filter) THEN Panic
    ELSE Ok(Join(<< SELECT_COUNT >> \o SqlFromWhere(s), NEWLINE))

----------------------------------------------------------------------------
(* The URL renderer: select_to_url *)

\* format!(r#"{}=eq.{}"#, filter.0, filter.2.as_str().unwrap()) for every filter
UrlFilters(s) ==
    [ i \in 1..Len(s.filter) |->
        s.filter[i][1] \o <<"=", "e", "q", ".">> \o as_str(s.filter[i][3]).v ]

\* format!(r#"{}.{}"#, c, format!("{:?}", d).to_lowercase()) for every order pair
UrlOrder(s) ==
    [ i \in 1..Len(s.order) |->
        s.order[i][1] \o <<".">> \o ToLowercase(DebugDirection(s.order[i][2])) ]

\* the params vector of select_to_url
UrlParams(s) ==
    UrlFilters(s)
    \o (IF Len(s.order) > 0
        THEN << <<"o", "r", "d", "e", "r", "=">> \o Join(UrlOrder(s), <<",", " ">>) >>
        ELSE <<>>)
    \o (IF s.limit > 0 /\ s.limit # LIMIT_DEFAULT
        THEN << <<"l", "i", "m", "i", "t", "=">> \o FormatUsize(s.limit) >>
        ELSE <<>>)
    \o (IF s.offset > 0
        THEN << <<"o", "f", "f", "s", "e", "t", "=">> \o FormatUsize(s.offset) >>
        ELSE <<>>)

\* select_to_url(s)
select_to_url(s) ==
    IF UnwrapPanics(s.filter) THEN Panic
    ELSE IF Len(UrlParams(s)) > 0
         THEN Ok(s.table \o <<"?">> \o Join(UrlParams(s), <<"&">>))
         ELSE Ok(s.table)

----------------------------------------------------------------------------
(* The URL parser.  The repository's parser is not among the source files; *)
(* this is the parser of the wire grammar: path = table, parameters split  *)
(* on "&", a parameter split at its first "=", the order directive split   *)
(* on ",", each pair split at its last ".".                                *)

IsDigits(t) == Len(t) > 0 /\ \A i \in 1..Len(t) : \E k \in 1..10 : DigitChars[k] = t[i]

RECURSIVE ParseUsize(_)
\* the number a string of decimal digits denotes
ParseUsize(t) ==
    IF Len(t) = 0 THEN 0
    ELSE 10 * ParseUsize(SubSeq(t, 1, Len(t) - 1))
         + (CHOOSE k \in 0..9 : DigitChars[k + 1] = t[Len(t)])

ParseOk(q) == [tag |-> "Ok", q |-> q]
ParseError == [tag |-> "ParseError", q |-> Select_new]

\* direction := "asc" | "desc"
IsDirectionText(t) == t = <<"a", "s", "c">> \/ t = <<"d", "e", "s", "c">>
ParseDirection(t) == IF t = <<"a", "s", "c">> THEN "ASC" ELSE "DESC"

\* column "." direction
OrderPairOk(t) ==
    LET i == LastIndexOf(t, ".")
    IN  i > 0 /\ IsDirectionText(SubSeq(t, i + 1, Len(t)))

ParseOrderPair(t) ==
    LET i == LastIndexOf(t, ".")
    IN  << SubSeq(t, 1, i - 1), ParseDirection(SubSeq(t, i + 1, Len(t))) >>

\* order := "order=" column "." direction ("," column "." direction)*
ParseOrder(v) ==
    LET pieces == Split(v, ",")
    IN  [ i \in 1..Len(pieces) |-> ParseOrderPair(pieces[i]) ]

\* filter := column "=" [ "eq." ] value
ParseFilterValue(v) ==
    IF StartsWith(v, <<"e", "q", ".">>) THEN SubSeq(v, 4, Len(v)) ELSE v

RECURSIVE ParseParams(_, _)
\* the parameters one after the other, each classified as order, limit,
\* offset or filter; a parameter without "=" is ignored
ParseParams(params, q) ==
    IF Len(params) = 0 THEN ParseOk(q)
    ELSE LET p == params[1]
             i == IndexOf(p, "=")
             k == SubSeq(p, 1, i - 1)
             v == SubSeq(p, i + 1, Len(p))
         IN  IF i = 0 THEN ParseParams(Tail(params), q)
             ELSE IF k = <<"o", "r", "d", "e", "r">>
             THEN IF \A j \in 1..Len(Split(v, ",")) : OrderPairOk(Split(v, ",")[j])
                  THEN ParseParams(Tail(params), [q EXCEPT !.order = @ \o ParseOrder(v)])
                  ELSE ParseError
             ELSE IF k = <<"l", "i", "m", "i", "t">>
             THEN IF IsDigits(v)
                  THEN ParseParams(Tail(params), [q EXCEPT !.limit = ParseUsize(v)])
                  ELSE ParseError
             ELSE IF k = <<"o", "f", "f", "s", "e", "t">>
             THEN IF IsDigits(v)
                  THEN ParseParams(Tail(params), [q EXCEPT !.offset = ParseUsize(v)])
                  ELSE ParseError
             ELSE ParseParams(Tail(params),
                      [q EXCEPT !.filter =
                          Append(@, << k, "EQUALS", StringValue(ParseFilterValue(v)) >>)])

\* parse(path, query_string): a Query with the default limit and offset 0
\* unless a parameter sets them
Parse(path, query) ==
    ParseParams(IF Len(query) = 0 THEN <<>> ELSE Split(query, "&"),
                [Select_new EXCEPT !.table = path, !.limit = LIMIT_DEFAULT])

\* the URL text split into path and query string at the first "?"
ParseUrl(url) ==
    LET i == IndexOf(url, "?")
    IN  IF i = 0 THEN Parse(url, <<>>)
        ELSE Parse(SubSeq(url, 1, i - 1), SubSeq(url, i + 1, Len(url)))

----------------------------------------------------------------------------
(* What the engine makes of the row-fetch statement *)

\* the lines of a text
Lines(text) == Split(text, "\n")

\* the keys of the object json_object(...) builds, which get_table_from_pool
\* decodes into one Record per row: the quoted label of every projection line
JsonObjectKeys(text) ==
    LET ls == Lines(text)
        last == CHOOSE i \in 1..Len(ls) : ls[i] = AS_JSON_RESULT /\ \A j \in 1..(i - 1) : ls[j] # AS_JSON_RESULT
        label(l) == LET a == IndexOf(l, "'")
                        rest == SubSeq(l, a + 1, Len(l))
                    IN  SubSeq(rest, 1, IndexOf(rest, "'") - 1)
    IN  { label(ls[i]) : i \in { j \in 2..(last - 1) : IndexOf(ls[j], "'") > 0 } }

\* the columns of the table the model queries
TableColumns == Columns

----------------------------------------------------------------------------
(* Translating a Select: every Query of the bounded domain, each translator *)

QueryFilters ==
    { <<ColA, "EQUALS", StringValue(<<"x">>)>>,
      <<ColB, "EQUALS", StringValue(<<"y">>)>>,
      <<ColB, "EQUALS", NumberValue(5)>> }
QueryOrders == { <<ColA, "ASC">>, <<ColB, "DESC">> }
QueryLimits == { 0, 1, LIMIT_DEFAULT, LIMIT_MAX, LIMIT_MAX + 1 }

Queries ==
    [table : { TableT, TableU },
     select : SeqsUpTo(Columns, MaxList),
     filter : SeqsUpTo(QueryFilters, MaxList),
     order : SeqsUpTo(QueryOrders, MaxList),
     limit : QueryLimits,
     offset : Offsets]

Call(fn, r) == [fn |-> fn, tag |-> r.tag, text |-> r.text]

TranslateRest == UNCHANGED << sel, hist, format, rows, column, result >>

ToSql ==
    /\ out = NoOut
    /\ out' = Call("select_to_sql", select_to_sql(sel))
    /\ op' = "select_to_sql"
    /\ UNCHANGED parsed
    /\ TranslateRest

ToSqlCount ==
    /\ out = NoOut
    /\ out' = Call("select_to_sql_count", select_to_sql_count(sel))
    /\ op' = "select_to_sql_count"
    /\ UNCHANGED parsed
    /\ TranslateRest

ToUrl ==
    /\ out = NoOut
    /\ out' = Call("select_to_url", select_to_url(sel))
    /\ op' = "select_to_url"
    /\ UNCHANGED parsed
    /\ TranslateRest

\* the rendered URL text handed back to the parser
ParseBack ==
    /\ out.fn = "select_to_url"
    /\ out.tag = "Ok"
    /\ parsed = NoParse
    /\ parsed' = ParseUrl(out.text)
    /\ op' = "parse"
    /\ UNCHANGED out
    /\ TranslateRest

Init ==
    /\ sel \in Queries
    /\ hist = sel
    /\ op = "new"
    /\ format = ""
    /\ out = NoOut
    /\ parsed = NoParse
    /\ rows = <<>>
    /\ column = <<>>
    /\ result = NoResult

Next ==
    \/ ToSql
    \/ ToSqlCount
    \/ ToUrl
    \/ ParseBack

Spec == Init /\ [][Next]_vars

----------------------------------------------------------------------------
(* The result reshaper: rows_to_map *)

\* serde_json::Map<String, Value>: the entries in insertion order, one per key
\* (the order-preserving map the comment at sql.rs:209 speaks of)
MapKeys(m) == { m[i][1] : i \in 1..Len(m) }

\* Map::insert(k, v): a new key goes to the end, a known key keeps its place
\* and takes the new value
MapInsert(m, k, v) ==
    IF k \in MapKeys(m)
    THEN [ i \in 1..Len(m) |-> IF m[i][1] = k THEN << k, v >> ELSE m[i] ]
    ELSE Append(m, << k, v >>)

\* Value::Object(r)
ObjectValue(r) == [t |-> "Object", s |-> r]

RECURSIVE RowKey(_, _, _)
\* the key the loop over one row's fields ends with, starting from
\* String::from(""): the key column's string, or a panic when the key
\* column's value is not a string
RowKey(row, col, key) ==
    IF Len(row) = 0 THEN [panic |-> FALSE, key |-> key]
    ELSE IF row[1][1] = col
         THEN IF as_str(row[1][2]).some
              THEN RowKey(Tail(row), col, as_str(row[1][2]).v)
              ELSE [panic |-> TRUE, key |-> key]
         ELSE RowKey(Tail(row), col, key)

\* the row with the key column taken out by Map::remove, which fills the hole
\* with the last entry
RowRest_swap_remove(row, col, r) ==
    LET all == row
        i == CHOOSE j \in 0..Len(all) :
                 \/ j > 0 /\ all[j][1] = col
                 \/ j = 0 /\ \A k \in 1..Len(all) : all[k][1] # col
    IN  IF i = 0 THEN all
        ELSE IF i = Len(all) THEN SubSeq(all, 1, Len(all) - 1)
        ELSE [ j \in 1..(Len(all) - 1) |-> IF j = i THEN all[Len(all)] ELSE all[j] ]

RECURSIVE RowRest(_, _, _)
\* the map r the loop over one row's fields ends with: every field but the
\* key column inserted in turn
RowRest(row, col, r) ==
    IF Len(row) = 0 THEN r
    ELSE IF row[1][1] = col
         THEN RowRest(Tail(row), col, r)
         ELSE RowRest(Tail(row), col, MapInsert(r, row[1][1], row[1][2]))

RowsOk(map) == [tag |-> "Ok", map |-> map]
RowsPanic == [tag |-> "Panic", map |-> <<>>]

RECURSIVE RowsFold(_, _, _)
\* the loop over the rows: one insert into map per row
RowsFold(rs, col, map) ==
    IF Len(rs) = 0 THEN RowsOk(map)
    ELSE LET k == RowKey(rs[1], col, <<>>)
         IN  IF k.panic THEN RowsPanic
             ELSE RowsFold(Tail(rs), col,
                           MapInsert(map, k.key, ObjectValue(RowRest(rs[1], col, <<>>))))

\* rows_to_map(rows, column)
rows_to_map(rs, col) == RowsFold(rs, col, <<>>)

----------------------------------------------------------------------------
(* Reshaping: every record list of the bounded domain *)

FieldI == <<"i">>
FieldN == <<"n">>
FieldM == <<"m">>
Fields == { FieldI, FieldN, FieldM }

\* the values a field of a record takes
FieldValues(f) ==
    IF f = FieldI THEN { StringValue(<<"a">>), StringValue(<<"b">>), NumberValue(1) }
    ELSE IF f = FieldN THEN { StringValue(<<"a">>), NumberValue(1) }
    ELSE { StringValue(<<"b">>) }

\* the records: every order of every subset of the fields, each with a value
Records ==
    { r \in SeqsUpTo(UNION { { << f, v >> : v \in FieldValues(f) } : f \in Fields },
                     Cardinality(Fields)) :
        \A i, j \in 1..Len(r) : i # j => r[i][1] # r[j][1] }

RecordLists == SeqsUpTo(Records, MaxRows)
KeyColumns == { FieldI, FieldN }

RowsToMap ==
    /\ result = NoResult
    /\ result' = rows_to_map(rows, column)
    /\ op' = "rows_to_map"
    /\ UNCHANGED << sel, hist, format, out, parsed, rows, column >>

InitReshape ==
    /\ rows \in RecordLists
    /\ column \in KeyColumns
    /\ result = NoResult
    /\ sel = Select_new
    /\ hist = Select_new
    /\ op = "new"
    /\ format = ""
    /\ out = NoOut
    /\ parsed = NoParse

NextReshape == RowsToMap

SpecReshape == InitReshape /\ [][NextReshape]_vars

----------------------------------------------------------------------------
(* Reading a rendered text *)

\* the parameters of a URL text: what follows the first "?", split on "&"
UrlTextParams(text) ==
    LET i == IndexOf(text, "?")
    IN  IF i = 0 \/ i = Len(text) THEN <<>> ELSE Split(SubSeq(text, i + 1, Len(text)), "&")

\* the call returned a URL text with a parameter that starts with prefix
HasParamPrefix(o, prefix) ==
    /\ o.tag = "Ok"
    /\ \E i \in 1..Len(UrlTextParams(o.text)) : StartsWith(UrlTextParams(o.text)[i], prefix)

\* the call returned a URL text with exactly this parameter
HasParam(o, param) ==
    /\ o.tag = "Ok"
    /\ \E i \in 1..Len(UrlTextParams(o.text)) : UrlTextParams(o.text)[i] = param

\* the line of a statement text that opens the clause kw, 0 when there is none
ClauseLine(text, kw) ==
    LET ls == Lines(text)
    IN  IF \E i \in 1..Len(ls) : StartsWith(ls[i], kw)
        THEN CHOOSE i \in 1..Len(ls) :
                 StartsWith(ls[i], kw) /\ \A j \in 1..(i - 1) : ~StartsWith(ls[j], kw)
        ELSE 0

\* the call returned a statement text that has the clause kw
HasClause(o, kw) == o.tag = "Ok" /\ ClauseLine(o.text, kw) > 0

\* the FROM and WHERE lines of a statement text, the continuation lines of
\* the WHERE clause included
IsFromWhereLine(l) ==
    \/ StartsWith(l, FROM_KW)
    \/ StartsWith(l, WHERE_KW)
    \/ StartsWith(l, <<" ", " ", "A", "N", "D", " ">>)
FromWhereLines(text) == SelectSeq(Lines(text), IsFromWhereLine)

AllStringValues(q) == \A i \in 1..Len(q.filter) : q.filter[i][3].t = "String"

----------------------------------------------------------------------------
(* C1 *)

\* the Queries the round trip is claimed for
RoundTripDomain(q) ==
    /\ \A i \in 1..Len(q.filter) : q.filter[i][2] = "EQUALS" /\ q.filter[i][3].t = "String"
    /\ \A i \in 1..Len(q.order) : q.order[i][2] \in Directions
    /\ q.limit \in 1..LIMIT_MAX
    /\ q.offset >= 0

\* field-category equivalence: the same table, the same set of filters, the
\* same order list, the same limit and offset
Equivalent(p, q) ==
    /\ p.table = q.table
    /\ { p.filter[i] : i \in 1..Len(p.filter) } = { q.filter[i] : i \in 1..Len(q.filter) }
    /\ p.order = q.order
    /\ p.limit = q.limit
    /\ p.offset = q.offset

\* C1: parsing the URL text select_to_url renders for a Query of the round
\* trip's domain gives back an equivalent Query.
C1_RoundTrip ==
    (op = "parse" /\ RoundTripDomain(sel)) => (parsed.tag = "Ok" /\ Equivalent(parsed.q, sel))

\* C1, for the Queries with at most one order pair: the round trip holds.
C1_RoundTripOneOrderPair ==
    (op = "parse" /\ RoundTripDomain(sel) /\ Len(sel.order) <= 1)
        => (parsed.tag = "Ok" /\ Equivalent(parsed.q, sel))

----------------------------------------------------------------------------
(* C2 *)

\* some record of the list does not hold the key column
SomeRecordLacksKey == \E i \in 1..Len(rows) : column \notin MapKeys(rows[i])

\* C2: when some record lacks the key column, rows_to_map returns the
\* MissingKeyError outcome: no keyed collection, no abort.
C2_MissingKeyError ==
    (op = "rows_to_map" /\ SomeRecordLacksKey) => result.tag = "MissingKeyError"

----------------------------------------------------------------------------
(* C3 *)

\* C3: the limit of every Select the mutators or the table handler build is
\* within [0, LIMIT_MAX].
C3_LimitWithinMax == sel.limit >= 0 /\ sel.limit <= LIMIT_MAX

----------------------------------------------------------------------------
(* C4 *)

\* C4: after any sequence of mutator calls on one Select, each list field is
\* the concatenation, in call order, of the arguments of the calls to its own
\* mutator, and table, limit and offset are what their last setter stored:
\* no call changes a field that is not its own.
C4_CumulativeMutators ==
    Mutable =>
        /\ sel.select = hist.select
        /\ sel.filter = hist.filter
        /\ sel.order = hist.order
        /\ sel.table = hist.table
        /\ sel.limit = hist.limit
        /\ sel.offset = hist.offset

\* every list grown by two calls, two different columns selected, the other
\* fields set, and order() the last to act
C4_Witness ==
    /\ op = "order"
    /\ Len(sel.select) = 2 /\ sel.select[1] # sel.select[2]
    /\ Len(sel.filter) = 2 /\ sel.filter[1] # sel.filter[2]
    /\ Len(sel.order) = 2 /\ sel.order[1] # sel.order[2]
    /\ sel.table = TableT /\ sel.limit = LIMIT_DEFAULT /\ sel.offset = 1

----------------------------------------------------------------------------
(* C5 *)

LIMIT_PARAM == <<"l", "i", "m", "i", "t", "=">>
OFFSET_PARAM == <<"o", "f", "f", "s", "e", "t", "=">>

CanonicalOmission(q, o) ==
    /\ q.limit = LIMIT_DEFAULT => ~HasParamPrefix(o, LIMIT_PARAM)
    /\ q.offset = 0 => ~HasParamPrefix(o, OFFSET_PARAM)
    /\ (q.limit \in 1..LIMIT_MAX /\ q.limit # LIMIT_DEFAULT)
           => HasParam(o, LIMIT_PARAM \o FormatUsize(q.limit))
    /\ q.offset > 0 => HasParam(o, OFFSET_PARAM \o FormatUsize(q.offset))

\* C5: for every Query, the text of select_to_url has no limit= parameter
\* when the limit is the default and no offset= parameter when the offset is
\* 0, and has limit=<limit> for every other limit in [1,100] and
\* offset=<offset> for every offset > 0.
C5_CanonicalOmission == op = "select_to_url" => CanonicalOmission(sel, out)

\* C5, for the calls that return a text: the omission rules hold.
C5_WhenReturns == (op = "select_to_url" /\ out.tag = "Ok") => CanonicalOmission(sel, out)

----------------------------------------------------------------------------
(* C6 *)

\* the Query that keeps only the table and the filters
TableAndFilters(q) == [Select_new EXCEPT !.table = q.table, !.filter = q.filter]

\* C6: select_to_sql_count aborts exactly when select_to_sql does, its FROM
\* and WHERE lines are those of select_to_sql, its result is the one of the
\* Query that keeps only the table and the filters (so it does not depend on
\* the projected columns, the ordering, the limit or the offset), and its
\* text has no ORDER BY, LIMIT or OFFSET clause.
C6_CountStatement ==
    op = "select_to_sql_count" =>
        /\ out.tag = select_to_sql(sel).tag
        /\ out.tag = "Ok" => FromWhereLines(out.text) = FromWhereLines(select_to_sql(sel).text)
        /\ out.tag = "Ok" => ClauseLine(out.text, FROM_KW) > 0
        /\ out = Call("select_to_sql_count", select_to_sql_count(TableAndFilters(sel)))
        /\ ~HasClause(out, ORDER_BY_KW)
        /\ ~HasClause(out, LIMIT_KW)
        /\ ~HasClause(out, OFFSET_KW)

\* a count statement returned for a Query with projected columns, two
\* filters, an ordering, a limit and an offset
C6_Witness ==
    /\ op = "select_to_sql_count"
    /\ out.tag = "Ok"
    /\ Len(sel.select) > 0 /\ Len(sel.filter) = 2 /\ Len(sel.order) > 0
    /\ sel.limit > 0 /\ sel.offset > 0

----------------------------------------------------------------------------
(* C7 *)

\* every record holds the key column with a string value
AllKeyed ==
    \A i \in 1..Len(rows) :
        \E f \in 1..Len(rows[i]) : rows[i][f][1] = column /\ rows[i][f][2].t = "String"

\* the key column's value in a record that holds it
KeyOf(row) == (CHOOSE f \in 1..Len(row) : row[f][1] = column)

\* the key values are pairwise distinct
DistinctKeys ==
    \A i, j \in 1..Len(rows) :
        i # j => rows[i][KeyOf(rows[i])][2] # rows[j][KeyOf(rows[j])][2]

IsNotKeyField(f) == f[1] # column

\* C7: for records that all hold the key column with a string value, the
\* key values pairwise distinct, rows_to_map returns one entry per record,
\* keyed by the record's key value, whose value is the record without the key
\* column, the other fields in their order and with their values.
C7_ReshapeCorrectness ==
    (op = "rows_to_map" /\ AllKeyed /\ DistinctKeys) =>
        /\ result.tag = "Ok"
        /\ Len(result.map) = Len(rows)
        /\ \A i \in 1..Len(rows) :
            \E j \in 1..Len(result.map) :
                result.map[j] = << rows[i][KeyOf(rows[i])][2].s,
                                   ObjectValue(SelectSeq(rows[i], IsNotKeyField)) >>

\* two records reshaped, the first with the key column ahead of two other
\* fields
C7_Witness ==
    /\ op = "rows_to_map"
    /\ AllKeyed /\ DistinctKeys
    /\ Len(rows) = 2
    /\ Len(rows[1]) = 3 /\ rows[1][1][1] = column
    /\ result.tag = "Ok"

----------------------------------------------------------------------------
(* C8 *)

\* C8: for a Query with no projected column, the row-fetch statement builds
\* its aggregate over all columns of the table: a decoded Record has one key
\* per table column.
C8_EmptyProjectionAllColumns ==
    (op = "select_to_sql" /\ out.tag = "Ok" /\ sel.select = <<>>)
        => JsonObjectKeys(out.text) = TableColumns

----------------------------------------------------------------------------
(* C9 *)

\* the URL text the format describes: filters as column=eq.value, the order
\* pairs as column.direction joined with a single comma after one order=,
\* then limit and offset, the parameters joined with "&" after table and "?"
DescribedUrl(q) ==
    LET params ==
            UrlFilters(q)
            \o (IF Len(q.order) > 0
                THEN << <<"o", "r", "d", "e", "r", "=">> \o Join(UrlOrder(q), <<",">>) >>
                ELSE <<>>)
            \o (IF q.limit > 0 /\ q.limit # LIMIT_DEFAULT
                THEN << LIMIT_PARAM \o FormatUsize(q.limit) >> ELSE <<>>)
            \o (IF q.offset > 0 THEN << OFFSET_PARAM \o FormatUsize(q.offset) >> ELSE <<>>)
    IN  IF Len(params) = 0 THEN q.table ELSE q.table \o <<"?">> \o Join(params, <<"&">>)

\* C9: for a Query with string filter values, select_to_url returns the text
\* the format describes.
C9_UrlFormat ==
    (op = "select_to_url" /\ AllStringValues(sel))
        => (out.tag = "Ok" /\ out.text = DescribedUrl(sel))

\* C9, for the Queries with at most one order pair: the text is the one the
\* format describes.
C9_UrlFormatOneOrderPair ==
    (op = "select_to_url" /\ AllStringValues(sel) /\ Len(sel.order) <= 1)
        => (out.tag = "Ok" /\ out.text = DescribedUrl(sel))

----------------------------------------------------------------------------
(* C10 *)

ClauseOrder == << FROM_KW, WHERE_KW, ORDER_BY_KW, LIMIT_KW, OFFSET_KW >>

ConditionalClauses(q, o) ==
    /\ HasClause(o, FROM_KW)
    /\ HasClause(o, WHERE_KW) <=> Len(q.filter) > 0
    /\ HasClause(o, ORDER_BY_KW) <=> Len(q.order) > 0
    /\ HasClause(o, LIMIT_KW) <=> q.limit > 0
    /\ HasClause(o, OFFSET_KW) <=> q.offset > 0
    /\ \A i, j \in 1..Len(ClauseOrder) :
           (i < j /\ HasClause(o, ClauseOrder[i]) /\ HasClause(o, ClauseOrder[j]))
               => ClauseLine(o.text, ClauseOrder[i]) < ClauseLine(o.text, ClauseOrder[j])

\* C10: for every Query, the text of select_to_sql has a WHERE clause exactly
\* when there are filters, an ORDER BY clause exactly when there is an
\* ordering, a LIMIT clause exactly when limit > 0 and an OFFSET clause
\* exactly when offset > 0, in the order FROM, WHERE, ORDER BY, LIMIT, OFFSET.
C10_ConditionalClauses == op = "select_to_sql" => ConditionalClauses(sel, out)

\* C10, for the calls that return a text: the clauses are as claimed.
C10_WhenReturns == (op = "select_to_sql" /\ out.tag = "Ok") => ConditionalClauses(sel, out)

----------------------------------------------------------------------------
(* C11 *)

Translators == { "select_to_sql", "select_to_sql_count", "select_to_url" }

AND_PREFIX == <<" ", " ", "A", "N", "D", " ">>

\* the equality terms of a statement text: the WHERE line without its
\* keyword, then every continuation line without its AND
WhereTerms(text) ==
    LET ls == Lines(text)
        isTerm(l) == StartsWith(l, WHERE_KW) \/ StartsWith(l, AND_PREFIX)
        terms == SelectSeq(ls, isTerm)
    IN  [ i \in 1..Len(terms) |-> SubSeq(terms[i], Len(WHERE_KW) + 1, Len(terms[i])) ]

\* the text of a scalar value: a string's characters, a number's digits
ScalarText(v) == v.s

\* one equality term per filter, in filter-list order, each made of the
\* filter's column and value: "column" = 'value' joined by AND in a statement
\* text, column=eq.value at the head of the parameters of a URL text
FiltersRendered(q, o) ==
    /\ o.tag = "Ok"
    /\ o.fn \in { "select_to_sql", "select_to_sql_count" } =>
        /\ Len(WhereTerms(o.text)) = Len(q.filter)
        /\ \A i \in 1..Len(q.filter) :
            WhereTerms(o.text)[i] =
                <<"\"">> \o q.filter[i][1] \o <<"\"", " ", "=", " ", "'">>
                         \o ScalarText(q.filter[i][3]) \o <<"'">>
    /\ o.fn = "select_to_url" =>
        /\ Len(UrlTextParams(o.text)) >= Len(q.filter)
        /\ \A i \in 1..Len(q.filter) :
            UrlTextParams(o.text)[i] =
                q.filter[i][1] \o <<"=", "e", "q", ".">> \o ScalarText(q.filter[i][3])

\* C11: for every Query whose filters carry scalar values, strings or not,
\* each of select_to_sql, select_to_sql_count and select_to_url returns a
\* text with one equality term per filter, in filter-list order; none aborts.
C11_ScalarFilters == op \in Translators => FiltersRendered(sel, out)

\* C11, for the Queries whose filter values are all strings: every
\* translator returns, with one term per filter.
C11_StringFilters ==
    (op \in Translators /\ AllStringValues(sel)) => FiltersRendered(sel, out)

====
